---- MODULE Spec2Model ----
(***************************************************************************)
(* Model of python-flysystem's Google Drive and Hugging Face adapters      *)
(* (src/src/flysystem/adapters/drive.py, hgface.py).                       *)
(*                                                                         *)
(* The module holds one specification per component:                       *)
(*   SpecCredential  DriveFilesystemAdapter.__init__ over the token cache  *)
(*   SpecResolver    DriveFilesystemAdapter.get_resource_by_name           *)
(*   SpecContract    the contract operations both adapters leave           *)
(*                   unimplemented                                         *)
(*   SpecDownload    download_folder / download_file                       *)
(*   SpecUpload      upload_folder / upload_file / create_directory        *)
(*   SpecTransfer    a run of either command, download or upload           *)
(*   SpecHgface      HuggingFaceFilesystemAdapter.download                 *)
(* Every specification leaves the other components' variables unchanged.   *)
(***************************************************************************)
EXTENDS Integers, Sequences, FiniteSets, TLC

VARIABLES
    \* ---- credential manager (DriveFilesystemAdapter.__init__) ----
    tokenFile,      \* content of the file at the default token path, or NoFile
    credsFile,      \* state of the client-secrets descriptor at creds_path
    now,            \* wall clock
    pc,             \* position of the constructor
    token_path,     \* the token_path argument of the running construction
    creds,          \* self.creds
    service,        \* self.service: None, or the credential it was built with
    ctorError,      \* the exception that left the constructor, or None
    didRefresh,     \* the running construction called creds.refresh
    didReauth,      \* the running construction ran the interactive flow
    didDump,        \* the running construction wrote the token file
    loaded,         \* what pickle.load returned in the running construction
    fileAtStart,    \* tokenFile when the running construction started
    lastDumped,     \* the credential last written by a construction, or None
    prevDumped,     \* lastDumped when the running construction started
    startedAt,      \* the clock when the running construction started
    \* ---- resource resolver (get_resource_by_name) ----
    resCall,        \* the last call: its argument, the backend's answer, the text typed
    resOut,         \* what the last call did: printed list, prompt, result, exception
    \* ---- contract operations ----
    opCall,         \* the last contract operation invoked: adapter, operation, path
    opError,        \* the exception it raised
    \* ---- download_folder / download_file ----
    remote,         \* the remote folder tree below the folder being downloaded
    localDirs,      \* the local directories, as paths
    localFiles,     \* the local files, as (path, content) pairs
    dlStack,        \* the active download_folder calls, innermost last
    dlFile,         \* the active download_file call
    dlStatus,       \* "idle", "running", "done" or "raised" ("off" in a run of the
                    \* upload command)
    dlError,        \* the exception that left the top-level call
    dlLog,          \* the files written so far, in order: (file id, local path)
    \* ---- upload_folder / upload_file / create_directory ----
    ltree,          \* the local directory tree below folder_path
    upParent,       \* the parent_id argument of the top-level call
    upStack,        \* the active upload_folder calls, innermost last
    remoteItems,    \* the folders and files created on the drive, in order
    upStatus,       \* "idle", "running", "done" or "raised" ("off" in a run of the
                    \* download command)
    upError,        \* the exception that left the top-level call
    \* ---- HuggingFaceFilesystemAdapter.download ----
    hfRepo,         \* what list_repo_files returns: the repository's file paths
    hfResource,     \* the resource argument, empty when there is none
    hfIdx,          \* position of the loop over the listed files
    hfLocal,        \* the files and directories below local_dir
    hfFetched,      \* the repository files fetched so far, in order
    hfStatus,       \* "idle", "running", "done" or "raised"
    hfError         \* the exception that left download

credVars == <<tokenFile, credsFile, now, pc, token_path, creds, service, ctorError,
              didRefresh, didReauth, didDump, loaded, fileAtStart, lastDumped,
              prevDumped, startedAt>>

resVars == <<resCall, resOut>>

opVars == <<opCall, opError>>

dlVars == <<remote, localDirs, localFiles, dlStack, dlFile, dlStatus, dlError, dlLog>>

upVars == <<ltree, upParent, upStack, remoteItems, upStatus, upError>>

hfVars == <<hfRepo, hfResource, hfIdx, hfLocal, hfFetched, hfStatus, hfError>>

vars == <<credVars, resVars, opVars, dlVars, upVars, hfVars>>

\* Python's None where a string is expected.
None == "None"
\* Python's None where an object (a record) is expected.
Nil == [nil |-> TRUE]
\* A file is the bytes it holds; NoFile is a path at which nothing exists.
File(bytes) == [exists |-> TRUE, bytes |-> bytes]
NoFile == [exists |-> FALSE, bytes |-> <<>>]
\* An expiry of None (the credential never expires), as an integer.
NoExpiry == 0 - 1

(***************************************************************************)
(* Bounds                                                                  *)
(***************************************************************************)
MaxTime == 2
\* the most resources one name query returns
MaxMatches == 3
\* the longest text typed at the selection prompt
MaxTyped == 2
\* the most nodes (folders and files) below the root of a transferred tree
MaxNodes == 3
\* the longest file content
MaxBytes == 2
\* the bytes one chunk of a resumable transfer carries
ChunkSize == 1
\* the most files a listed repository holds
MaxRepoFiles == 3

(***************************************************************************)
(* Exceptions.  An AdapterError is what error.with_location builds: a kind *)
(* (the exception class), a location and a message.  Any other exception   *)
(* is raw: it carries only its class name.                                 *)
(***************************************************************************)
AdapterError(kind, location, message) ==
    [adapter |-> TRUE, kind |-> kind, location |-> location, message |-> message]

RawError(kind) ==
    [adapter |-> FALSE, kind |-> kind, location |-> None, message |-> None]

NoError == Nil

(***************************************************************************)
(* Credentials (google.oauth2.credentials.Credentials as __init__ uses     *)
(* them): token, expiry, refresh_token and the derived expired / valid.    *)
(***************************************************************************)
Tokens == {"t1", "t2"}
RefreshTokens == {"r1"}
DefaultTokenPath == "/tmp/drive_token.pickle"
Lifetime == 1

Credential(token, expiry, refresh_token) ==
    [token |-> token, expiry |-> expiry, refresh_token |-> refresh_token]

Credentials ==
    { Credential(t, e, r) : t \in Tokens \cup {None},
                            e \in (0..MaxTime) \cup {NoExpiry},
                            r \in RefreshTokens \cup {None} }

ExpiredAt(c, t) == c.expiry # NoExpiry /\ t >= c.expiry

ValidAt(c, t) == c.token # None /\ ~ExpiredAt(c, t)

expired(c) == ExpiredAt(c, now)

valid(c) == ValidAt(c, now)

(***************************************************************************)
(* pickle.dump / pickle.load.  A pickle is a byte sequence: a protocol     *)
(* header, the object's fields, and a STOP opcode.                         *)
(***************************************************************************)
Dump(c) == <<"PROTO", c.token, c.expiry, c.refresh_token, "STOP">>

Prefixes(s) == { SubSeq(s, 1, n) : n \in 0..(Len(s) - 1) }

\* What pickle.load can do with the bytes: return an object, or raise.
\* An empty stream raises EOFError; an unknown opcode raises UnpicklingError;
\* a stream cut short raises UnpicklingError inside an operand and EOFError
\* at an opcode boundary.
LoadOutcomes(bytes) ==
    IF bytes = <<>> THEN {[exc |-> "EOFError"]}
    ELSE IF bytes[1] # "PROTO" THEN {[exc |-> "UnpicklingError"]}
    ELSE IF Len(bytes) < 5 \/ bytes[5] # "STOP"
         THEN {[exc |-> "UnpicklingError"], [exc |-> "EOFError"]}
    ELSE {[exc |-> None, obj |-> Credential(bytes[2], bytes[3], bytes[4])]}

Garbage == <<"junk">>

CorruptFiles ==
    { File(b) : b \in {Garbage} \cup UNION { Prefixes(Dump(c)) : c \in Credentials } }

TokenFiles == {NoFile} \cup CorruptFiles \cup { File(Dump(c)) : c \in Credentials }

CredsFileStates == {"ok", "not_json", "missing"}

(***************************************************************************)
(* DriveFilesystemAdapter.__init__                                         *)
(***************************************************************************)
\* The constructor leaves by raising e.
CtorRaise(e) ==
    /\ pc' = "failed"
    /\ ctorError' = e

\* line 35: a new construction starts; self.creds = None.
CtorStart ==
    /\ pc \in {"idle", "built", "failed"}
    /\ \E tp \in {DefaultTokenPath, ""} : token_path' = tp
    /\ pc' = "load"
    /\ creds' = Nil
    /\ service' = Nil
    /\ ctorError' = NoError
    /\ didRefresh' = FALSE
    /\ didReauth' = FALSE
    /\ didDump' = FALSE
    /\ loaded' = Nil
    /\ fileAtStart' = tokenFile
    /\ prevDumped' = lastDumped
    /\ startedAt' = now
    /\ UNCHANGED <<tokenFile, credsFile, now, lastDumped>>
    /\ UNCHANGED <<resVars, opVars, dlVars, upVars, hfVars>>

\* CtorLoad with every failure of pickle.load swallowed: an unreadable cache is
\* dropped and the constructor goes on without a credential.
CtorLoad_DiscardsCorrupt ==
    /\ pc = "load"
    /\ IF token_path # "" /\ tokenFile.exists
       THEN \E o \in LoadOutcomes(tokenFile.bytes) :
              IF o.exc = None
              THEN /\ creds' = o.obj
                   /\ loaded' = o.obj
              ELSE UNCHANGED <<creds, loaded>>
       ELSE UNCHANGED <<creds, loaded>>
    /\ pc' = "validate"
    /\ UNCHANGED <<tokenFile, credsFile, now, token_path, service, ctorError, didRefresh,
                   didReauth, didDump, fileAtStart, lastDumped,
                   prevDumped, startedAt>>
    /\ UNCHANGED <<resVars, opVars, dlVars, upVars, hfVars>>

\* lines 37-43: read the token cache when the path is set and the file exists.
CtorLoad ==
    /\ pc = "load"
    /\ IF token_path # "" /\ tokenFile.exists
       THEN \E o \in LoadOutcomes(tokenFile.bytes) :
              IF o.exc = None
              THEN /\ creds' = o.obj
                   /\ loaded' = o.obj
                   /\ pc' = "validate"
                   /\ UNCHANGED ctorError
              ELSE IF o.exc = "UnpicklingError"
              THEN /\ CtorRaise(AdapterError("UnableToFindDriveToken", token_path,
                                             "Can't pickle the token."))
                   /\ UNCHANGED <<creds, loaded>>
              ELSE /\ CtorRaise(RawError(o.exc))
                   /\ UNCHANGED <<creds, loaded>>
       ELSE /\ pc' = "validate"
            /\ UNCHANGED <<creds, loaded, ctorError>>
    /\ UNCHANGED <<tokenFile, credsFile, now, token_path, service, didRefresh,
                   didReauth, didDump, fileAtStart, lastDumped,
                   prevDumped, startedAt>>
    /\ UNCHANGED <<resVars, opVars, dlVars, upVars, hfVars>>

\* CtorValidate with the validity test dropped from line 46: a credential that
\* carries a refresh token is refreshed even while it is valid.
CtorValidate_RefreshAnyway ==
    /\ pc = "validate"
    /\ IF creds = Nil \/ ~valid(creds) \/ creds.refresh_token # None
       THEN IF creds # Nil /\ creds.refresh_token # None
            THEN pc' = "refresh"
            ELSE pc' = "reauthorize"
       ELSE pc' = "build"
    /\ UNCHANGED <<tokenFile, credsFile, now, token_path, creds, service, ctorError,
                   didRefresh, didReauth, didDump, loaded, fileAtStart, lastDumped,
                   prevDumped, startedAt>>
    /\ UNCHANGED <<resVars, opVars, dlVars, upVars, hfVars>>

\* lines 46-50: choose between no-op, refresh and reauthorization.
CtorValidate ==
    /\ pc = "validate"
    /\ IF creds = Nil \/ ~valid(creds)
       THEN IF creds # Nil /\ expired(creds) /\ creds.refresh_token # None
            THEN pc' = "refresh"
            ELSE pc' = "reauthorize"
       ELSE pc' = "build"
    /\ UNCHANGED <<tokenFile, credsFile, now, token_path, creds, service, ctorError,
                   didRefresh, didReauth, didDump, loaded, fileAtStart, lastDumped,
                   prevDumped, startedAt>>
    /\ UNCHANGED <<resVars, opVars, dlVars, upVars, hfVars>>

\* line 49: self.creds.refresh(Request()).  The token endpoint either issues a
\* new access token or rejects the refresh (RefreshError, not caught).
CtorRefresh ==
    /\ pc = "refresh"
    /\ didRefresh' = TRUE
    /\ \/ \E t \in Tokens :
            /\ creds' = Credential(t, now + Lifetime, creds.refresh_token)
            /\ pc' = "persist"
            /\ UNCHANGED ctorError
       \/ /\ CtorRaise(RawError("RefreshError"))
          /\ UNCHANGED creds
    /\ UNCHANGED <<tokenFile, credsFile, now, token_path, service,
                   didReauth, didDump, loaded, fileAtStart, lastDumped,
                   prevDumped, startedAt>>
    /\ UNCHANGED <<resVars, opVars, dlVars, upVars, hfVars>>

\* lines 51-57: InstalledAppFlow.from_client_secrets_file, run_local_server.
CtorReauthorize ==
    /\ pc = "reauthorize"
    /\ didReauth' = TRUE
    /\ \/ /\ credsFile = "not_json"
          /\ CtorRaise(AdapterError("UnableToReadCredentialFile", "creds_path",
                          "The input credential file is not JSON formatted."))
          /\ UNCHANGED creds
       \/ /\ credsFile = "missing"
          /\ CtorRaise(RawError("FileNotFoundError"))
          /\ UNCHANGED creds
       \/ /\ credsFile = "ok"
          /\ \/ \E t \in Tokens, r \in RefreshTokens \cup {None} :
                  /\ creds' = Credential(t, now + Lifetime, r)
                  /\ pc' = "persist"
                  /\ UNCHANGED ctorError
             \/ /\ CtorRaise(RawError("AccessDeniedError"))
                /\ UNCHANGED creds
    /\ UNCHANGED <<tokenFile, credsFile, now, token_path, service,
                   didRefresh, didDump, loaded, fileAtStart, lastDumped,
                   prevDumped, startedAt>>
    /\ UNCHANGED <<resVars, opVars, dlVars, upVars, hfVars>>

\* CtorPersist made best-effort: a failure to open the token file is swallowed
\* and the constructor goes on to build the service.
CtorPersist_BestEffort ==
    /\ pc = "persist"
    /\ IF token_path = ""
       THEN UNCHANGED <<tokenFile, didDump, lastDumped>>
       ELSE /\ tokenFile' = File(Dump(creds))
            /\ didDump' = TRUE
            /\ lastDumped' = creds
    /\ pc' = "build"
    /\ UNCHANGED <<credsFile, now, token_path, creds, service, ctorError,
                   didRefresh, didReauth, loaded, fileAtStart,
                   prevDumped, startedAt>>
    /\ UNCHANGED <<resVars, opVars, dlVars, upVars, hfVars>>

\* lines 60-61: open(token_path, "wb"); pickle.dump(self.creds, token).
CtorPersist ==
    /\ pc = "persist"
    /\ IF token_path = ""
       THEN /\ CtorRaise(RawError("FileNotFoundError"))
            /\ UNCHANGED <<tokenFile, didDump, lastDumped>>
       ELSE /\ tokenFile' = File(Dump(creds))
            /\ didDump' = TRUE
            /\ lastDumped' = creds
            /\ pc' = "build"
            /\ UNCHANGED ctorError
    /\ UNCHANGED <<credsFile, now, token_path, creds, service,
                   didRefresh, didReauth, loaded, fileAtStart,
                   prevDumped, startedAt>>
    /\ UNCHANGED <<resVars, opVars, dlVars, upVars, hfVars>>

\* line 64: self.service = build("drive", "v3", credentials=self.creds).
CtorBuild ==
    /\ pc = "build"
    /\ service' = creds
    /\ pc' = "built"
    /\ UNCHANGED <<tokenFile, credsFile, now, token_path, creds, ctorError,
                   didRefresh, didReauth, didDump, loaded, fileAtStart, lastDumped,
                   prevDumped, startedAt>>
    /\ UNCHANGED <<resVars, opVars, dlVars, upVars, hfVars>>

\* Between constructions time passes.
Tick ==
    /\ pc \in {"idle", "built", "failed"}
    /\ now < MaxTime
    /\ now' = now + 1
    /\ UNCHANGED <<tokenFile, credsFile, pc, token_path, creds, service, ctorError,
                   didRefresh, didReauth, didDump, loaded, fileAtStart, lastDumped,
                   prevDumped, startedAt>>
    /\ UNCHANGED <<resVars, opVars, dlVars, upVars, hfVars>>

CredNext ==
    \/ CtorStart
    \/ CtorLoad
    \/ CtorValidate
    \/ CtorRefresh
    \/ CtorReauthorize
    \/ CtorPersist
    \/ CtorBuild
    \/ Tick


(***************************************************************************)
(* Properties of the credential manager                                    *)
(***************************************************************************)

\* The running construction has read the token cache.
PastLoad == pc \notin {"idle", "load"}

\* C7: when the token cache file exists but cannot be deserialized (corrupt,
\* empty or truncated), construction fails with UnableToFindToken (the class
\* UnableToFindDriveToken) located at the token path.
C7_CorruptCacheRaisesUnableToFindToken ==
    (PastLoad /\ token_path # "" /\ fileAtStart \in CorruptFiles)
        => /\ pc = "failed"
           /\ ctorError.adapter
           /\ ctorError.kind = "UnableToFindDriveToken"
           /\ ctorError.location = token_path

\* C8: once a construction has refreshed or reauthorized and reached the
\* building of the service, the token file holds exactly self.creds, and a
\* built service uses that credential.
C8_PersistedBeforeBuild ==
    (pc \in {"build", "built"} /\ (didRefresh \/ didReauth))
        => /\ didDump
           /\ tokenFile.exists
           /\ LoadOutcomes(tokenFile.bytes) = {[exc |-> None, obj |-> creds]}
           /\ (pc = "built" => service = creds)

C8_Witness ==
    /\ pc = "built"
    /\ didRefresh
    /\ service # loaded
    /\ tokenFile # fileAtStart

\* C9: with no cached credential, with an invalid credential that has no
\* refresh token, and when the refresh of an expired credential fails, the
\* constructor goes on to the interactive authorization flow.
C9_FallsBackToReauthorize ==
    [][ /\ (pc = "validate" /\ (creds = Nil \/ (~valid(creds) /\ creds.refresh_token = None)))
            => pc' = "reauthorize"
        /\ (pc = "refresh" /\ pc' # "persist")
            => pc' = "reauthorize" ]_vars

\* The credential a previous construction persisted is still in the cache and
\* was valid when the running construction started.
PersistedStillValid ==
    /\ PastLoad
    /\ token_path = DefaultTokenPath
    /\ prevDumped # Nil
    /\ fileAtStart = File(Dump(prevDumped))
    /\ ValidAt(prevDumped, startedAt)

\* C10: a construction that finds a persisted, still valid credential loads a
\* credential with the same token fields, neither refreshes nor reauthorizes,
\* does not fail, and leaves the cache file as it was.
C10_ValidReloadIsNoOp ==
    PersistedStillValid
        => /\ loaded = prevDumped
           /\ creds = prevDumped
           /\ ~didRefresh
           /\ ~didReauth
           /\ ~didDump
           /\ tokenFile = fileAtStart
           /\ pc \in {"validate", "build", "built"}

C10_Witness ==
    /\ PersistedStillValid
    /\ pc = "built"
    /\ service = prevDumped
    /\ prevDumped.refresh_token # None

\* The constructor was left by one of the two terminal credential errors.
TerminalFailure ==
    /\ ctorError # NoError
    /\ ctorError.adapter
    /\ ctorError.kind \in {"UnableToFindDriveToken", "UnableToReadCredentialFile"}

\* The running construction was aborted: it raised, built no service and
\* left the token file as it found it.
Aborted ==
    /\ pc = "failed"
    /\ ctorError # NoError
    /\ service = Nil
    /\ ~didDump
    /\ tokenFile = fileAtStart

\* C11: a terminal credential failure aborts the construction: after
\* UnableToFindToken or UnableToReadCredentialFile, and for every corrupt
\* token cache, the constructor has raised, no service is built and the token
\* file is not written; a client-secrets file that is not JSON raises
\* UnableToReadCredentialFile, a kind other than the token cache's.
C11_TerminalFailureAborts ==
    /\ TerminalFailure => Aborted
    /\ (PastLoad /\ token_path # "" /\ fileAtStart \in CorruptFiles) => Aborted
    /\ (didReauth /\ pc # "reauthorize" /\ credsFile = "not_json")
          => /\ Aborted
             /\ ctorError.adapter
             /\ ctorError.kind = "UnableToReadCredentialFile"
             /\ ctorError.kind # "UnableToFindDriveToken"

C11_Witness ==
    /\ TerminalFailure
    /\ ctorError.kind = "UnableToReadCredentialFile"
    /\ fileAtStart.exists
    /\ Aborted

(***************************************************************************)
(* DriveFilesystemAdapter.get_resource_by_name                             *)
(***************************************************************************)
FOLDER == "application/vnd.google-apps.folder"

Names == {"report", "data"}

\* The resources of the drive that carry the queried name: two folders and
\* files, told apart by their ids.
Resource(id, name) ==
    [id |-> id, name |-> name, mimeType |-> IF id <= 2 THEN FOLDER ELSE "text/plain"]

\* Sequences over S without repetition, of length at most n.
DistinctSeqs(S, n) ==
    { q \in UNION { [1..k -> S] : k \in 0..n } :
        \A i, j \in 1..Len(q) : i # j => q[i] # q[j] }

\* What files().list(q=...).execute() can do: answer with the matching
\* resources in the backend's order, or raise.
QueryAnswers(name) ==
    { [exc |-> None, files |-> [i \in 1..Len(ids) |-> Resource(ids[i], name)]] :
        ids \in DistinctSeqs(1..MaxMatches, MaxMatches) }
    \cup { [exc |-> e, files |-> <<>>] : e \in {"TransportError", "HttpError", "Exception"} }

\* The text typed at the prompt.
Chars == {"-", "x", "0", "1", "2", "3", "4", "5"}
Digits == {"0", "1", "2", "3", "4", "5"}

DigitVal(c) ==
    CASE c = "0" -> 0 [] c = "1" -> 1 [] c = "2" -> 2
      [] c = "3" -> 3 [] c = "4" -> 4 [] c = "5" -> 5

RECURSIVE TextsUpTo(_)
TextsUpTo(n) ==
    IF n = 0 THEN {<<>>}
    ELSE TextsUpTo(n - 1) \cup { Append(t, c) : t \in TextsUpTo(n - 1), c \in Chars }

Typed == TextsUpTo(MaxTyped)

IsDigits(t) == Len(t) > 0 /\ \A i \in 1..Len(t) : t[i] \in Digits

RECURSIVE DecimalValue(_)
DecimalValue(t) ==
    IF t = <<>> THEN 0
    ELSE 10 * DecimalValue(SubSeq(t, 1, Len(t) - 1)) + DigitVal(t[Len(t)])

\* int(text): the integer a decimal numeral denotes, ValueError otherwise.
ParseInt(t) ==
    IF t # <<>> /\ t[1] = "-"
    THEN IF IsDigits(Tail(t))
         THEN [ok |-> TRUE, value |-> 0 - DecimalValue(Tail(t))]
         ELSE [ok |-> FALSE, value |-> 0]
    ELSE IF IsDigits(t)
         THEN [ok |-> TRUE, value |-> DecimalValue(t)]
         ELSE [ok |-> FALSE, value |-> 0]

\* lines 164-172: the numbered list printed before the prompt.
Listing(files) == [i \in 1..Len(files) |-> [number |-> i, file |-> files[i]]]

ResOutcome(shown, prompted, result, error) ==
    [shown |-> shown, prompted |-> prompted, result |-> result, error |-> error]

\* Select with the "- 1" of line 177 forgotten: the item after the chosen one.
Select_OffByOne(resource_name, files, typed) ==
    LET choice == ParseInt(typed)
    IN  IF ~choice.ok
        THEN ResOutcome(Listing(files), TRUE, Nil, RawError("ValueError"))
        ELSE IF 1 <= choice.value /\ choice.value <= Len(files)
        THEN IF choice.value = Len(files)
             THEN ResOutcome(Listing(files), TRUE, Nil, RawError("IndexError"))
             ELSE ResOutcome(Listing(files), TRUE, files[choice.value + 1], NoError)
        ELSE ResOutcome(Listing(files), TRUE, Nil,
                        AdapterError("UnableToDownload", resource_name, "Invalid choice"))

\* Select with the range test of line 176 starting at 0: files[-1] is the
\* last item.
Select_ZeroAccepted(resource_name, files, typed) ==
    LET choice == ParseInt(typed)
    IN  IF ~choice.ok
        THEN ResOutcome(Listing(files), TRUE, Nil, RawError("ValueError"))
        ELSE IF 0 <= choice.value /\ choice.value <= Len(files)
        THEN ResOutcome(Listing(files), TRUE,
                        files[IF choice.value = 0 THEN Len(files) ELSE choice.value],
                        NoError)
        ELSE ResOutcome(Listing(files), TRUE, Nil,
                        AdapterError("UnableToDownload", resource_name, "Invalid choice"))

\* lines 163-179: several matches; print them, read the choice, return it.
Select(resource_name, files, typed) ==
    LET choice == ParseInt(typed)
    IN  IF ~choice.ok
        THEN ResOutcome(Listing(files), TRUE, Nil, RawError("ValueError"))
        ELSE IF 1 <= choice.value /\ choice.value <= Len(files)
        THEN ResOutcome(Listing(files), TRUE, files[choice.value], NoError)
        ELSE ResOutcome(Listing(files), TRUE, Nil,
                        AdapterError("UnableToDownload", resource_name, "Invalid choice"))

\* Resolve with the test of line 158 missing: an empty answer returns None.
Resolve_EmptyReturnsNone(resource_name, answer, typed) ==
    IF answer.exc # None
    THEN ResOutcome(<<>>, FALSE, Nil,
                    AdapterError("UnableToDownload", resource_name, answer.exc))
    ELSE IF Len(answer.files) = 0
    THEN ResOutcome(<<>>, FALSE, Nil, NoError)
    ELSE IF Len(answer.files) = 1
    THEN ResOutcome(<<>>, FALSE, answer.files[1], NoError)
    ELSE Select(resource_name, answer.files, typed)

\* lines 141-179: the whole of get_resource_by_name.  The message of a wrapped
\* backend exception is str(e) or err.reason; the model keeps the class name.
Resolve(resource_name, answer, typed) ==
    IF answer.exc # None
    THEN ResOutcome(<<>>, FALSE, Nil,
                    AdapterError("UnableToDownload", resource_name, answer.exc))
    ELSE IF Len(answer.files) = 0
    THEN ResOutcome(<<>>, FALSE, Nil,
                    AdapterError("UnableToDownload", resource_name, "Resource not found"))
    ELSE IF Len(answer.files) = 1
    THEN ResOutcome(<<>>, FALSE, answer.files[1], NoError)
    ELSE Select(resource_name, answer.files, typed)

NoCall == [called |-> FALSE, resource_name |-> None, answer |-> [exc |-> None, files |-> <<>>],
           typed |-> <<>>]

\* The call of get_resource_by_name a run makes (cli/download.py calls it
\* once): the argument, the backend's answer and the text the user would type
\* are the inputs.
GetResourceByName ==
    /\ ~resCall.called
    /\ \E name \in Names, typed \in Typed :
      \E answer \in QueryAnswers(name) :
        /\ resCall' = [called |-> TRUE, resource_name |-> name, answer |-> answer,
                       typed |-> typed]
        /\ resOut' = Resolve(name, answer, typed)
    /\ UNCHANGED <<credVars, opVars, dlVars, upVars, hfVars>>

ResNext == GetResourceByName


(***************************************************************************)
(* Properties of the resolver                                              *)
(***************************************************************************)

\* The last call's query succeeded with n matches.
Matches == IF resCall.called /\ resCall.answer.exc = None
           THEN Len(resCall.answer.files) ELSE 0 - 1

\* C4: one match is returned without a prompt; N > 1 matches are listed in
\* the backend's order, numbered 1..N, and a typed k in 1..N returns the
\* k-th item of the backend's list.
C4_ReturnsChosenMatch ==
    /\ Matches = 1
        => /\ resOut.result = resCall.answer.files[1]
           /\ ~resOut.prompted
           /\ resOut.error = NoError
    /\ Matches > 1
        => /\ resOut.prompted
           /\ Len(resOut.shown) = Matches
           /\ \A i \in 1..Matches :
                /\ resOut.shown[i].number = i
                /\ resOut.shown[i].file = resCall.answer.files[i]
           /\ \A k \in 1..Matches :
                (ParseInt(resCall.typed).ok /\ ParseInt(resCall.typed).value = k)
                    => /\ resOut.result = resCall.answer.files[k]
                       /\ resOut.error = NoError

C4_Witness ==
    /\ Matches = 3
    /\ resCall.answer.files[1].id > resCall.answer.files[2].id
    /\ ParseInt(resCall.typed).ok
    /\ ParseInt(resCall.typed).value = 2
    /\ resOut.result = resCall.answer.files[2]

\* The last call prompted and the text typed is an integer outside 1..N.
ChoiceOutOfRange ==
    /\ Matches > 1
    /\ ParseInt(resCall.typed).ok
    /\ ParseInt(resCall.typed).value \notin 1..Matches

\* C5 as stated: an index outside [1, N] fails with the InvalidChoice kind.
C5_OutOfRangeRaisesInvalidChoice ==
    ChoiceOutOfRange
        => /\ resOut.error # NoError
           /\ resOut.error.kind = "InvalidChoice"
           /\ resOut.result = Nil

\* C5 amended: an index outside [1, N] fails with UnableToDownload located at
\* the supplied name with the message "Invalid choice", and returns nothing.
C5_OutOfRangeRaisesUnableToDownload ==
    ChoiceOutOfRange
        => /\ resOut.error =
                AdapterError("UnableToDownload", resCall.resource_name, "Invalid choice")
           /\ resOut.result = Nil

C5_Witness ==
    /\ ChoiceOutOfRange
    /\ ParseInt(resCall.typed).value = 0
    /\ resOut.error.message = "Invalid choice"

\* C6: zero matches fail with UnableToDownload ("Resource not found") located
\* at the supplied name, with no prompt and no resource returned.
C6_ZeroMatchesNotFound ==
    Matches = 0
        => /\ resOut.error =
                AdapterError("UnableToDownload", resCall.resource_name, "Resource not found")
           /\ ~resOut.prompted
           /\ resOut.shown = <<>>
           /\ resOut.result = Nil

C6_Witness ==
    /\ Matches = 0
    /\ resCall.resource_name = "report"
    /\ resOut.error.location = "report"

(***************************************************************************)
(* The contract operations neither adapter implements                      *)
(***************************************************************************)
\* drive.py lines 245-423: each of these bodies is "raise NotImplementedError".
DriveUnsupported ==
    {"file_exists", "directory_exists", "write", "write_stream", "read",
     "read_stream", "delete", "delete_directory", "set_visibility", "visibility",
     "file_size", "mime_type", "last_modified", "list_contents", "copy", "move",
     "temporary_url"}

\* hgface.py lines 22-211: the same operations and create_directory.
HgfaceUnsupported == DriveUnsupported \cup {"create_directory"}

Unsupported(adapter) ==
    IF adapter = "drive" THEN DriveUnsupported ELSE HgfaceUnsupported

\* The exception the body of an unsupported operation raises.
UnsupportedRaises(adapter, op) == RawError("NotImplementedError")

Paths == {"a.txt", "dir", "dir/a.txt"}

NoOpCall == [called |-> FALSE, adapter |-> None, op |-> None, path |-> None]

\* A caller invokes one unsupported contract operation on one adapter.
CallUnsupported ==
    /\ ~opCall.called
    /\ \E adapter \in {"drive", "huggingface"}, path \in Paths :
         \E op \in Unsupported(adapter) :
           /\ opCall' = [called |-> TRUE, adapter |-> adapter, op |-> op, path |-> path]
           /\ opError' = UnsupportedRaises(adapter, op)
    /\ UNCHANGED <<credVars, resVars, dlVars, upVars, hfVars>>

OpNext == CallUnsupported

\* C3: invoking an operation the backend does not support fails with the
\* UnsupportedOperation adapter error, never with a language-native exception.
C3_UnsupportedRaisesUnsupportedOperation ==
    opCall.called
        => /\ opError # NoError
           /\ opError.adapter
           /\ opError.kind = "UnsupportedOperation"

(***************************************************************************)
(* Folder trees, remote and local                                          *)
(***************************************************************************)
\* A tree below a root folder (node 0): nodes 1..n, each with its parent, its
\* kind and, for a file, its length.  A node's parent is the root or an
\* earlier folder; names are distinct; a listing returns children by id.
NodeName(i) ==
    CASE i = 0 -> "root" [] i = 1 -> "n1" [] i = 2 -> "n2" [] i = 3 -> "n3"
      [] i = 4 -> "n4" [] OTHER -> "n5"

Node(parent, isFolder, size) == [parent |-> parent, isFolder |-> isFolder, size |-> size]

NodeChoices(i) ==
    { Node(p, TRUE, 0) : p \in 0..(i - 1) }
    \cup { Node(p, FALSE, k) : p \in 0..(i - 1), k \in 0..MaxBytes }

WellFormed(t) ==
    \A i \in 1..Len(t) : t[i].parent = 0 \/ t[t[i].parent].isFolder

RECURSIVE TreesOfSize(_)
TreesOfSize(n) ==
    IF n = 0 THEN {<<>>}
    ELSE { Append(t, c) : t \in TreesOfSize(n - 1), c \in NodeChoices(n) }

Trees == { t \in UNION { TreesOfSize(n) : n \in 0..MaxNodes } : WellFormed(t) }

IsFileNode(t, i) == ~t[i].isFolder

\* The bytes of file i: as many as its size, no two files sharing a byte.
Content(t, i) == [k \in 1..t[i].size |-> 10 * i + k]

\* The children of node p in listing order.
RECURSIVE ChildrenUpTo(_, _, _)
ChildrenUpTo(t, p, n) ==
    IF n = 0 THEN <<>>
    ELSE IF t[n].parent = p
         THEN Append(ChildrenUpTo(t, p, n - 1), n)
         ELSE ChildrenUpTo(t, p, n - 1)

Children(t, p) == ChildrenUpTo(t, p, Len(t))

\* The names from the root down to node i, the root's own name excluded.
RECURSIVE RelPath(_, _)
RelPath(t, i) ==
    IF i = 0 THEN <<>> ELSE Append(RelPath(t, t[i].parent), NodeName(i))

(***************************************************************************)
(* The local file system                                                   *)
(***************************************************************************)
\* os.path.join(path, name) for a relative name.
Join(path, name) == Append(path, name)

\* os.makedirs(path, exist_ok=True): the directory and its missing ancestors.
MakeDirs(dirs, path) == dirs \cup { SubSeq(path, 1, k) : k \in 1..Len(path) }

IsFile(files, path) == \E f \in files : f.path = path

\* open(path, "wb").write(content): the file is created or truncated.
WriteFile(files, path, content) ==
    { f \in files : f.path # path } \cup {[path |-> path, content |-> content]}

(***************************************************************************)
(* DriveFilesystemAdapter.download_folder and download_file                *)
(***************************************************************************)
DownloadPath == <<"dl">>

BackendErrors == {"TransportError", "HttpError", "Exception"}

NoDownload == [active |-> FALSE, file_id |-> 0, file_name |-> None, download_path |-> <<>>,
               fh |-> <<>>, done |-> FALSE, chunks |-> 0]

DlFrame(folder_id, folder_name, download_path) ==
    [folder_id |-> folder_id, folder_name |-> folder_name, download_path |-> download_path,
     entered |-> FALSE, items |-> <<>>, idx |-> 1]

DlTop == dlStack[Len(dlStack)]

DlReplaceTop(frame) == [dlStack EXCEPT ![Len(dlStack)] = frame]

\* A download_folder that notes the exception and goes on with the rest of
\* the listing.
DlRaise_ContinuesWithSiblings(e) ==
    /\ dlError' = e
    /\ dlFile' = NoDownload
    /\ UNCHANGED <<dlStack, dlStatus>>

\* An exception leaves download_folder: no frame catches it.
DlRaise(e) ==
    /\ dlStatus' = "raised"
    /\ dlError' = e
    /\ dlStack' = <<>>
    /\ dlFile' = NoDownload

\* cli/download.py line 60: download_folder(resource["id"], resource["name"],
\* args.download_path) on the resolved folder.
DownloadFolderCall ==
    /\ dlStatus = "idle"
    /\ dlStatus' = "running"
    /\ dlStack' = <<DlFrame(0, NodeName(0), DownloadPath)>>
    /\ UNCHANGED <<remote, localDirs, localFiles, dlFile, dlError>>
    /\ UNCHANGED dlLog
    /\ UNCHANGED <<credVars, resVars, opVars, upVars, hfVars>>

\* lines 221-234: join the folder's name to the path, make the directory,
\* list the folder's children.
DownloadFolderEnter ==
    /\ dlStatus = "running"
    /\ ~dlFile.active
    /\ ~DlTop.entered
    /\ LET path == Join(DlTop.download_path, DlTop.folder_name)
       IN  IF IsFile(localFiles, path)
           THEN /\ DlRaise(RawError("FileExistsError"))
                /\ UNCHANGED <<localDirs, localFiles>>
           ELSE /\ localDirs' = MakeDirs(localDirs, path)
                /\ UNCHANGED localFiles
                /\ \/ /\ dlStack' = DlReplaceTop(
                             [DlTop EXCEPT !.download_path = path,
                                           !.entered = TRUE,
                                           !.items = Children(remote, DlTop.folder_id)])
                      /\ UNCHANGED <<dlFile, dlStatus, dlError>>
                   \/ \E e \in BackendErrors :
                        DlRaise(AdapterError("UnableToDownload", DlTop.folder_name, e))
    /\ UNCHANGED remote
    /\ UNCHANGED dlLog
    /\ UNCHANGED <<credVars, resVars, opVars, upVars, hfVars>>

\* lines 236-242: the next item of the listing: a folder is made and entered,
\* a file's download starts (lines 192-195).
DownloadFolderItem ==
    /\ dlStatus = "running"
    /\ ~dlFile.active
    /\ DlTop.entered
    /\ DlTop.idx <= Len(DlTop.items)
    /\ LET item == DlTop.items[DlTop.idx]
           advanced == DlReplaceTop([DlTop EXCEPT !.idx = DlTop.idx + 1])
       IN  IF remote[item].isFolder
           THEN LET new_folder_path == Join(DlTop.download_path, NodeName(item))
                IN  IF IsFile(localFiles, new_folder_path)
                    THEN /\ DlRaise(RawError("FileExistsError"))
                         /\ UNCHANGED localDirs
                    ELSE /\ localDirs' = MakeDirs(localDirs, new_folder_path)
                         /\ dlStack' = Append(advanced,
                                DlFrame(item, NodeName(item), new_folder_path))
                         /\ UNCHANGED <<dlFile, dlStatus, dlError>>
           ELSE /\ dlFile' = [active |-> TRUE, file_id |-> item,
                              file_name |-> NodeName(item),
                              download_path |-> DlTop.download_path,
                              fh |-> <<>>, done |-> FALSE, chunks |-> 0]
                /\ dlStack' = advanced
                /\ UNCHANGED <<localDirs, dlStatus, dlError>>
    /\ UNCHANGED <<remote, localFiles>>
    /\ UNCHANGED dlLog
    /\ UNCHANGED <<credVars, resVars, opVars, upVars, hfVars>>

\* A next_chunk that never advances: every chunk is cut from the start of the
\* file.
NextChunk_FromStart(content, received) ==
    SubSeq(content, 1,
           IF received + ChunkSize < Len(content) THEN ChunkSize ELSE Len(content) - received)

\* MediaIoBaseDownload.next_chunk: the next ChunkSize bytes of the file after
\* the ones already received.
NextChunk(content, received) ==
    SubSeq(content, received + 1,
           IF received + ChunkSize < Len(content) THEN received + ChunkSize ELSE Len(content))

\* lines 196-197: one turn of the loop; the backend hands over a chunk and
\* says whether it was the last, or the request fails.
DownloadFileNextChunk ==
    /\ dlStatus = "running"
    /\ dlFile.active
    /\ ~dlFile.done
    /\ \/ LET content == Content(remote, dlFile.file_id)
              fh == dlFile.fh \o NextChunk(content, Len(dlFile.fh))
          IN  /\ dlFile' = [dlFile EXCEPT !.fh = fh, !.done = (Len(fh) = Len(content)),
                                            !.chunks = dlFile.chunks + 1]
              /\ UNCHANGED <<dlStack, dlStatus, dlError>>
       \/ \E e \in BackendErrors :
            DlRaise(AdapterError("UnableToDownload", dlFile.file_name, e))
    /\ UNCHANGED <<remote, localDirs, localFiles>>
    /\ UNCHANGED dlLog
    /\ UNCHANGED <<credVars, resVars, opVars, upVars, hfVars>>

\* lines 199-202: make the directory and write the buffer to
\* download_path/file_name; a local failure is wrapped by line 207.
DownloadFileWrite ==
    /\ dlStatus = "running"
    /\ dlFile.active
    /\ dlFile.done
    /\ LET path == Join(dlFile.download_path, dlFile.file_name)
       IN  \/ /\ path \notin localDirs
              /\ ~IsFile(localFiles, dlFile.download_path)
              /\ localDirs' = MakeDirs(localDirs, dlFile.download_path)
              /\ localFiles' = WriteFile(localFiles, path, dlFile.fh)
              /\ dlLog' = Append(dlLog, [file_id |-> dlFile.file_id, path |-> path])
              /\ dlFile' = NoDownload
              /\ UNCHANGED <<dlStack, dlStatus, dlError>>
           \/ /\ \E e \in {"IsADirectoryError", "PermissionError"} :
                   /\ e = "IsADirectoryError" => path \in localDirs
                   /\ DlRaise(AdapterError("UnableToDownload", dlFile.file_name, e))
              /\ UNCHANGED <<localDirs, localFiles, dlLog>>
    /\ UNCHANGED remote
    /\ UNCHANGED <<credVars, resVars, opVars, upVars, hfVars>>

\* line 243: the listing is exhausted; the call returns to its caller.
DownloadFolderReturn ==
    /\ dlStatus = "running"
    /\ ~dlFile.active
    /\ DlTop.entered
    /\ DlTop.idx > Len(DlTop.items)
    /\ dlStack' = SubSeq(dlStack, 1, Len(dlStack) - 1)
    /\ dlStatus' = IF Len(dlStack) = 1 THEN "done" ELSE "running"
    /\ UNCHANGED <<remote, localDirs, localFiles, dlFile, dlError>>
    /\ UNCHANGED dlLog
    /\ UNCHANGED <<credVars, resVars, opVars, upVars, hfVars>>

DlNext ==
    \/ DownloadFolderCall
    \/ DownloadFolderEnter
    \/ DownloadFolderItem
    \/ DownloadFileNextChunk
    \/ DownloadFileWrite
    \/ DownloadFolderReturn

(***************************************************************************)
(* Properties of the folder download                                       *)
(***************************************************************************)
\* The local directory that mirrors the downloaded folder.
LocalRoot == Join(DownloadPath, NodeName(0))

IsUnder(path, root) ==
    Len(path) >= Len(root) /\ SubSeq(path, 1, Len(root)) = root

\* The directories and files a faithful copy of the remote tree consists of.
MirrorDirs ==
    {LocalRoot} \cup
    { LocalRoot \o RelPath(remote, i) : i \in { j \in 1..Len(remote) : remote[j].isFolder } }

MirrorFiles ==
    { [path |-> LocalRoot \o RelPath(remote, i), content |-> Content(remote, i)] :
        i \in { j \in 1..Len(remote) : ~remote[j].isFolder } }

\* C1: a download_folder that completes without error leaves under
\* download_path/folder_name exactly the remote tree: one directory per
\* remote folder inside its parent's directory, and every file in the
\* directory of its remote parent with the source's bytes.
C1_DownloadMirrorsRemoteTree ==
    dlStatus = "done"
        => /\ { d \in localDirs : IsUnder(d, LocalRoot) } = MirrorDirs
           /\ { f \in localFiles : IsUnder(f.path, LocalRoot) } = MirrorFiles

(***************************************************************************)
(* DriveFilesystemAdapter.create_directory, upload_file and upload_folder  *)
(***************************************************************************)
\* The ids the drive assigns to what it creates, in order of creation.
BackendId(k) ==
    CASE k = 1 -> "id1" [] k = 2 -> "id2" [] k = 3 -> "id3" [] k = 4 -> "id4"
      [] k = 5 -> "id5" [] OTHER -> "id6"

\* The values of --parent-id: absent, the id of an existing folder, and a
\* text that has "parent_id" in it.
ParentIds == {None, "0AbC", "my_parent_id"}

\* "parent_id" in text, for the texts that occur as ids.
HasParentIdIn(text) == text \in {"parent_id", "my_parent_id"}

\* The options argument of create_directory: None, a str, or a dict that
\* may hold the key "parent_id".
NoOptions == [type |-> "NoneType", text |-> None, parent_id |-> None]
StrOptions(text) == [type |-> "str", text |-> text, parent_id |-> None]
DictOptions(parent_id) == [type |-> "dict", text |-> None, parent_id |-> parent_id]

\* What upload_folder hands to create_directory as options: its parent_id.
AsOptions(parent_id) == IF parent_id = None THEN NoOptions ELSE StrOptions(parent_id)

RemoteItem(id, name, isFolder, parents, node, content) ==
    [id |-> id, name |-> name, isFolder |-> isFolder, parents |-> parents,
     node |-> node, content |-> content]

\* The result of a call: the exception raised (NoError if none), the id
\* returned, and the drive's items afterwards.
CallResult(error, id, items) == [error |-> error, id |-> id, items |-> items]

\* lines 75-78: the metadata's parents.  `"parent_id" in options` is a key
\* test on a dict, a substring test on a str and a TypeError on None;
\* options["parent_id"] on a str is a TypeError.
\* The result is the exception raised, or the parents put in the metadata.
DirectoryParents(options) ==
    IF options.type = "NoneType"
    THEN [error |-> RawError("TypeError"), parents |-> {}]
    ELSE IF options.type = "str"
    THEN IF HasParentIdIn(options.text)
         THEN [error |-> RawError("TypeError"), parents |-> {}]
         ELSE [error |-> NoError, parents |-> {}]
    ELSE IF options.parent_id # None
         THEN [error |-> NoError, parents |-> {options.parent_id}]
         ELSE [error |-> NoError, parents |-> {}]

\* lines 66-85: create_directory(path, options) on a drive holding items;
\* backend is None when the drive accepts the request, else what it raises.
CreateDirectory(path, options, node, items, backend) ==
    LET meta == DirectoryParents(options)
        id == BackendId(Len(items) + 1)
    IN  IF meta.error # NoError
        THEN CallResult(meta.error, None, items)
        ELSE IF backend # None
        THEN CallResult(AdapterError("UnableToCreateDirectory", path, backend), None, items)
        ELSE CallResult(NoError, id,
                        Append(items, RemoteItem(id, path, TRUE, meta.parents, node, <<>>)))

\* lines 87-113: upload_file(file_path, parent_id); the metadata names the
\* parent when parent_id is truthy.
UploadFile(file_path, parent_id, node, content, items, backend) ==
    LET id == BackendId(Len(items) + 1)
        parents == IF parent_id # None /\ parent_id # "" THEN {parent_id} ELSE {}
    IN  IF backend # None
        THEN CallResult(AdapterError("UnableToUpload", file_path, backend), None, items)
        ELSE CallResult(NoError, id,
                        Append(items, RemoteItem(id, file_path[Len(file_path)], FALSE,
                                                 parents, node, content)))

UploadPath == <<"up", "root">>

UploadErrors == {"TransportError", "HttpError", "FileNotFoundError", "PermissionError",
                 "Exception"}

UpFrame(node, folder_path, parent_id) ==
    [node |-> node, folder_path |-> folder_path, parent_id |-> parent_id,
     entered |-> FALSE, folder_id |-> None, items |-> <<>>, idx |-> 1]

UpTop == upStack[Len(upStack)]

UpReplaceTop(frame) == [upStack EXCEPT ![Len(upStack)] = frame]

\* An exception leaves upload_folder: no frame catches it.
UpRaise(e) ==
    /\ upStatus' = "raised"
    /\ upError' = e
    /\ upStack' = <<>>

\* cli/upload.py line 60: upload_folder(args.upload_resource, args.parent_id).
UploadFolderCall ==
    /\ upStatus = "idle"
    /\ upStatus' = "running"
    /\ upStack' = <<UpFrame(0, UploadPath, upParent)>>
    /\ UNCHANGED <<ltree, upParent, remoteItems, upError>>
    /\ UNCHANGED <<credVars, resVars, opVars, dlVars, hfVars>>

\* lines 124-134: create the remote folder named after the directory, any
\* exception of create_directory re-raised as UnableToUpload; then list the
\* directory.
UploadFolderEnter ==
    /\ upStatus = "running"
    /\ ~UpTop.entered
    /\ \E backend \in {None, "TransportError", "HttpError"} :
         LET folder_name == UpTop.folder_path[Len(UpTop.folder_path)]
             made == CreateDirectory(folder_name, AsOptions(UpTop.parent_id),
                                     UpTop.node, remoteItems, backend)
         IN  IF made.error # NoError
             THEN /\ UpRaise(AdapterError("UnableToUpload", UpTop.folder_path,
                                          made.error.kind))
                  /\ UNCHANGED remoteItems
             ELSE /\ remoteItems' = made.items
                  /\ \/ /\ upStack' = UpReplaceTop(
                               [UpTop EXCEPT !.entered = TRUE,
                                             !.folder_id = made.id,
                                             !.items = Children(ltree, UpTop.node)])
                        /\ UNCHANGED <<upStatus, upError>>
                     \/ UpRaise(RawError("PermissionError"))
    /\ UNCHANGED <<ltree, upParent>>
    /\ UNCHANGED <<credVars, resVars, opVars, dlVars, hfVars>>

\* lines 134-139: the next entry of the directory: a file is uploaded under
\* the created folder, a subdirectory is entered with it as parent_id.
UploadFolderItem ==
    /\ upStatus = "running"
    /\ UpTop.entered
    /\ UpTop.idx <= Len(UpTop.items)
    /\ LET item == UpTop.items[UpTop.idx]
           item_path == Join(UpTop.folder_path, NodeName(item))
           advanced == UpReplaceTop([UpTop EXCEPT !.idx = UpTop.idx + 1])
       IN  IF ltree[item].isFolder
           THEN /\ upStack' = Append(advanced, UpFrame(item, item_path, UpTop.folder_id))
                /\ UNCHANGED <<remoteItems, upStatus, upError>>
           ELSE \E backend \in {None} \cup UploadErrors :
                  LET sent == UploadFile(item_path, UpTop.folder_id, item,
                                         Content(ltree, item), remoteItems, backend)
                  IN  IF sent.error # NoError
                      THEN /\ UpRaise(sent.error)
                           /\ UNCHANGED remoteItems
                      ELSE /\ remoteItems' = sent.items
                           /\ upStack' = advanced
                           /\ UNCHANGED <<upStatus, upError>>
    /\ UNCHANGED <<ltree, upParent>>
    /\ UNCHANGED <<credVars, resVars, opVars, dlVars, hfVars>>

\* the loop of line 134 ends; the call returns to its caller.
UploadFolderReturn ==
    /\ upStatus = "running"
    /\ UpTop.entered
    /\ UpTop.idx > Len(UpTop.items)
    /\ upStack' = SubSeq(upStack, 1, Len(upStack) - 1)
    /\ upStatus' = IF Len(upStack) = 1 THEN "done" ELSE "running"
    /\ UNCHANGED <<ltree, upParent, remoteItems, upError>>
    /\ UNCHANGED <<credVars, resVars, opVars, dlVars, hfVars>>

UpNext ==
    \/ UploadFolderCall
    \/ UploadFolderEnter
    \/ UploadFolderItem
    \/ UploadFolderReturn

(***************************************************************************)
(* Properties of the folder upload                                         *)
(***************************************************************************)
\* The remote items created for local node i (0 is the top directory).
CreatedFor(i) == { k \in 1..Len(remoteItems) : remoteItems[k].node = i }

\* The remote parent the item created for node i should have.
ExpectedParents(i) ==
    IF i = 0
    THEN IF upParent = None THEN {} ELSE {upParent}
    ELSE { remoteItems[k].id : k \in CreatedFor(ltree[i].parent) }

\* C2: an upload_folder that completes without error has created one remote
\* folder per local directory and one remote file per local file, the top
\* folder under parent_id and each subdirectory's folder under the folder
\* created for the directory that contains it.
C2_UploadMirrorsLocalTree ==
    upStatus = "done"
        => \A i \in 0..Len(ltree) :
             /\ Cardinality(CreatedFor(i)) = 1
             /\ \A k \in CreatedFor(i) :
                  /\ remoteItems[k].isFolder = (i = 0 \/ ltree[i].isFolder)
                  /\ remoteItems[k].name = NodeName(i)
                  /\ remoteItems[k].isFolder
                       => remoteItems[k].parents = ExpectedParents(i)

\* C15: upload_folder called without a parent, on a drive that accepts the
\* create request, creates the folder named after the directory: the call
\* ends in an error before anything is created only when the drive rejected
\* the request, and once past the creation the first remote item is that
\* folder, with no parent.
C15_UploadWithoutParentSucceeds ==
    upParent = None
        => /\ (upStatus = "raised" /\ remoteItems = <<>>)
                 => /\ upError.adapter
                    /\ upError.message = "UnableToCreateDirectory"
           /\ (upStatus = "done" \/ remoteItems # <<>>)
                 => /\ remoteItems # <<>>
                    /\ remoteItems[1].isFolder
                    /\ remoteItems[1].name = UploadPath[Len(UploadPath)]
                    /\ remoteItems[1].parents = {}

(***************************************************************************)
(* Properties of download_file                                             *)
(***************************************************************************)
\* The number of chunks a file of n bytes takes: one even when it is empty.
ChunksOf(n) == IF n = 0 THEN 1 ELSE (n + ChunkSize - 1) \div ChunkSize

\* C14: download_file asks for one chunk after another and stops exactly when
\* the backend reports completion: the buffer always holds the chunks
\* received so far in order, a further chunk is requested iff completion has
\* not been reported, the write happens only after it, and the file written
\* to download_path/file_name has the source's length and content.
C14_ChunksUntilDoneThenExactFile ==
    /\ dlFile.active
         => LET content == Content(remote, dlFile.file_id)
            IN  /\ IsFileNode(remote, dlFile.file_id)
                /\ Len(dlFile.fh) <= Len(content)
                /\ dlFile.fh = SubSeq(content, 1, Len(dlFile.fh))
                /\ dlFile.chunks <= ChunksOf(Len(content))
                /\ dlFile.done <=> (dlFile.chunks = ChunksOf(Len(content)))
                /\ dlFile.done => dlFile.fh = content
                /\ dlFile.done => ~ENABLED DownloadFileNextChunk
                /\ ~dlFile.done => ~ENABLED DownloadFileWrite
    /\ \A k \in 1..Len(dlLog) :
         /\ dlLog[k].path[Len(dlLog[k].path)] = NodeName(dlLog[k].file_id)
         /\ \A f \in localFiles :
              f.path = dlLog[k].path
                 => /\ Len(f.content) = remote[dlLog[k].file_id].size
                    /\ f.content = Content(remote, dlLog[k].file_id)
         /\ IsFile(localFiles, dlLog[k].path)

\* A file of several chunks has been written.
C14_Witness ==
    \E k \in 1..Len(dlLog) :
        /\ ChunksOf(remote[dlLog[k].file_id].size) >= 2
        /\ [path |-> dlLog[k].path, content |-> Content(remote, dlLog[k].file_id)]
               \in localFiles

(***************************************************************************)
(* Order and abort of a folder transfer                                    *)
(***************************************************************************)
\* The nodes below the listed ones, depth-first in listing order.
RECURSIVE PreorderOf(_, _)
PreorderOf(t, kids) ==
    IF kids = <<>> THEN <<>>
    ELSE <<Head(kids)>> \o PreorderOf(t, Children(t, Head(kids)))
                       \o PreorderOf(t, Tail(kids))

Preorder(t) == PreorderOf(t, Children(t, 0))

FilesOf(t, order) == SelectSeq(order, LAMBDA i : IsFileNode(t, i))

IsPrefix(a, b) == Len(a) <= Len(b) /\ SubSeq(b, 1, Len(a)) = a

\* The order in which a download visits the files, an upload the nodes.
DlPlan == FilesOf(remote, Preorder(remote))
UpPlan == <<0>> \o Preorder(ltree)

\* What has been transferred so far, in order.
DlOrder == [k \in 1..Len(dlLog) |-> dlLog[k].file_id]
UpOrder == [k \in 1..Len(remoteItems) |-> remoteItems[k].node]

\* The file whose transfer raised the error, 0 if the error is not a file's.
DlFailedFile ==
    IF dlError # NoError /\ dlError.adapter
         /\ \E i \in 1..Len(remote) : IsFileNode(remote, i) /\ NodeName(i) = dlError.location
    THEN CHOOSE i \in 1..Len(remote) : NodeName(i) = dlError.location
    ELSE 0

UpFailedFile ==
    IF upError # NoError /\ upError.adapter
         /\ \E i \in 1..Len(ltree) :
               IsFileNode(ltree, i) /\ upError.location = UploadPath \o RelPath(ltree, i)
    THEN CHOOSE i \in 1..Len(ltree) : upError.location = UploadPath \o RelPath(ltree, i)
    ELSE 0

\* C12: a folder transfer, in either direction, visits the tree depth-first
\* in listing order and stops at the first failure: what has been
\* transferred is always an initial part of that order, a failed file is the
\* next one of the order and is never transferred, an error ends the
\* top-level call with nothing left to run, and every file written before
\* the failure is still in place with its content.
C12_FailFastInListingOrder ==
    /\ IsPrefix(DlOrder, DlPlan)
    /\ dlFile.active => /\ Len(DlOrder) < Len(DlPlan)
                        /\ DlPlan[Len(DlOrder) + 1] = dlFile.file_id
    /\ \A k \in 1..Len(dlLog) :
         [path |-> dlLog[k].path, content |-> Content(remote, dlLog[k].file_id)]
             \in localFiles
    /\ dlError # NoError
         => /\ dlStatus = "raised"
            /\ dlStack = <<>>
            /\ ~dlFile.active
            /\ ~ENABLED DlNext
    /\ DlFailedFile # 0
         => /\ Len(DlOrder) < Len(DlPlan)
            /\ DlPlan[Len(DlOrder) + 1] = DlFailedFile
    /\ IsPrefix(UpOrder, UpPlan)
    /\ upError # NoError
         => /\ upStatus = "raised"
            /\ upStack = <<>>
            /\ ~ENABLED UpNext
    /\ UpFailedFile # 0
         => /\ Len(UpOrder) < Len(UpPlan)
            /\ UpPlan[Len(UpOrder) + 1] = UpFailedFile

\* A download that failed on the second of three files: the first is
\* written, the third never is.
C12_Witness ==
    /\ dlStatus = "raised"
    /\ DlFailedFile # 0
    /\ Len(dlLog) = 1
    /\ Len(DlPlan) = 3
    /\ \E f \in localFiles : f.path = dlLog[1].path

(***************************************************************************)
(* HuggingFaceFilesystemAdapter.download                                   *)
(***************************************************************************)
\* Repository paths and resources are strings, kept as sequences of
\* characters; a local path is the sequence of its segments below local_dir.
RepoPaths ==
    { <<"a">>, <<"a", "b">>, <<"d", "/", "a">>, <<"d", "/", "b">>, <<"d", "/", "c">>,
      <<"d", "2", "/", "x">> }

\* The --resource values: absent, a file, a folder, a file inside a folder.
Resources == { <<>>, <<"a">>, <<"d">>, <<"d", "/", "a">> }

\* What list_repo_files can return: up to MaxRepoFiles distinct paths.
Repos == DistinctSeqs(RepoPaths, MaxRepoFiles)

RepoId == "org/repo"

Tmp == <<"t", "m", "p">>

\* str.startswith.
StartsWith(s, prefix) == IsPrefix(prefix, s)

\* str.split("/").
RECURSIVE Split(_)
Split(s) ==
    IF \A k \in 1..Len(s) : s[k] # "/"
    THEN <<s>>
    ELSE LET k == CHOOSE i \in 1..Len(s) :
                     s[i] = "/" /\ \A j \in 1..(i - 1) : s[j] # "/"
         IN  <<SubSeq(s, 1, k - 1)>> \o Split(SubSeq(s, k + 1, Len(s)))

\* The segments of the path a string denotes.
PathOf(s) == SelectSeq(Split(s), LAMBDA seg : seg # <<>>)

\* os.path.join(path, s) for a relative s.
JoinPath(path, s) == path \o PathOf(s)

LocalFile(path, origin) == [path |-> path, origin |-> origin]

FileSystem(files, dirs) == [files |-> files, dirs |-> dirs]

IsDirIn(fs, path) == path = <<>> \/ path \in fs.dirs

ExistsIn(fs, path) == IsDirIn(fs, path) \/ \E f \in fs.files : f.path = path

ReRoot(path, src, dst) == dst \o SubSeq(path, Len(src) + 1, Len(path))

\* hf_hub_download(filename=file_path, local_dir=dir): the file is written
\* to dir/file_path, its directories made.
HfHubDownload(fs, file_path, dir) ==
    LET path == JoinPath(dir, file_path)
    IN  FileSystem({ f \in fs.files : f.path # path } \cup {LocalFile(path, file_path)},
                   fs.dirs \cup { SubSeq(path, 1, k) : k \in 1..(Len(path) - 1) })

\* snapshot_download(local_dir=dir): every file of the repository at its path.
SnapshotDownload(fs, repo, dir) ==
    FileSystem(fs.files \cup { LocalFile(JoinPath(dir, repo[i]), repo[i]) : i \in 1..Len(repo) },
               fs.dirs \cup UNION { { SubSeq(JoinPath(dir, repo[i]), 1, k) :
                                        k \in 1..(Len(JoinPath(dir, repo[i])) - 1) } :
                                    i \in 1..Len(repo) })

\* os.rename(src, dst) of an existing file or directory tree.
Rename(fs, src, dst) ==
    FileSystem({ f \in fs.files : ~IsUnder(f.path, src) /\ f.path # dst }
                 \cup { LocalFile(ReRoot(f.path, src, dst), f.origin) :
                          f \in { g \in fs.files : IsUnder(g.path, src) } },
               { d \in fs.dirs : ~IsUnder(d, src) }
                 \cup { ReRoot(d, src, dst) : d \in { e \in fs.dirs : IsUnder(e, src) } })

\* shutil.move(src, dst): into dst when dst is a directory, failing if the
\* name is taken there; else a rename.  The result is the exception raised
\* (None if none) and the file system afterwards.
ShutilMove(fs, src, dst) ==
    LET real_dst == IF IsDirIn(fs, dst) THEN Append(dst, src[Len(src)]) ELSE dst
    IN  IF IsDirIn(fs, dst) /\ ExistsIn(fs, real_dst)
        THEN [error |-> "Error", fs |-> fs]
        ELSE IF ~ExistsIn(fs, src)
        THEN [error |-> "FileNotFoundError", fs |-> fs]
        ELSE IF IsDirIn(fs, src) /\ ExistsIn(fs, real_dst)
        THEN [error |-> "FileExistsError", fs |-> fs]
        ELSE [error |-> None, fs |-> Rename(fs, src, real_dst)]

\* shutil.rmtree(path).
RmTree(fs, path) ==
    FileSystem({ f \in fs.files : ~IsUnder(f.path, path) },
               { d \in fs.dirs : ~IsUnder(d, path) })

\* The exceptions of the hub client the method names.
HfErrors == {"RepositoryNotFoundError", "RevisionNotFoundError", "HfHubHTTPError"}

\* Every exception inside download is re-raised as UnableToDownload.
HfRaise(e) ==
    /\ hfStatus' = "raised"
    /\ hfError' = AdapterError("UnableToDownload", RepoId, e)

\* cli/download.py line 71: download(repo_id, download_path, resource); with
\* no resource the snapshot is downloaded, else the repository is listed.
HfDownloadCall ==
    /\ hfStatus = "idle"
    /\ \/ \E e \in HfErrors :
            /\ HfRaise(e)
            /\ UNCHANGED <<hfLocal, hfFetched>>
       \/ IF hfResource = <<>>
          THEN /\ hfLocal' = SnapshotDownload(hfLocal, hfRepo, <<>>)
               /\ hfFetched' = hfRepo
               /\ hfStatus' = "done"
               /\ UNCHANGED hfError
          ELSE /\ hfStatus' = "running"
               /\ UNCHANGED <<hfLocal, hfFetched, hfError>>
    /\ UNCHANGED <<hfRepo, hfResource, hfIdx>>
    /\ UNCHANGED <<credVars, resVars, opVars, dlVars, upVars>>

\* lines 228-235: one turn of the loop over the listed files.
HfDownloadItem ==
    /\ hfStatus = "running"
    /\ hfIdx <= Len(hfRepo)
    /\ LET file_path == hfRepo[hfIdx]
           tmp_path == Join(<<>>, Tmp)
           src_path == JoinPath(tmp_path, hfResource)
           dst_path == Join(<<>>, Split(hfResource)[Len(Split(hfResource))])
           fetched == HfHubDownload(hfLocal, file_path, tmp_path)
           moved == ShutilMove(fetched, src_path, dst_path)
       IN  IF ~StartsWith(file_path, hfResource)
           THEN /\ hfIdx' = hfIdx + 1
                /\ UNCHANGED <<hfLocal, hfFetched, hfStatus, hfError>>
           ELSE \/ \E e \in HfErrors :
                     /\ HfRaise(e)
                     /\ UNCHANGED <<hfLocal, hfFetched, hfIdx>>
                \/ /\ hfFetched' = Append(hfFetched, file_path)
                   /\ IF moved.error # None
                      THEN /\ HfRaise(moved.error)
                           /\ hfLocal' = fetched
                           /\ UNCHANGED hfIdx
                      ELSE /\ hfLocal' = RmTree(moved.fs, tmp_path)
                           /\ hfIdx' = hfIdx + 1
                           /\ UNCHANGED <<hfStatus, hfError>>
    /\ UNCHANGED <<hfRepo, hfResource>>
    /\ UNCHANGED <<credVars, resVars, opVars, dlVars, upVars>>

\* the loop of line 228 ends; download returns.
HfDownloadReturn ==
    /\ hfStatus = "running"
    /\ hfIdx > Len(hfRepo)
    /\ hfStatus' = "done"
    /\ UNCHANGED <<hfRepo, hfResource, hfIdx, hfLocal, hfFetched, hfError>>
    /\ UNCHANGED <<credVars, resVars, opVars, dlVars, upVars>>

HfNext ==
    \/ HfDownloadCall
    \/ HfDownloadItem
    \/ HfDownloadReturn

(***************************************************************************)
(* Properties of the Hugging Face download                                 *)
(***************************************************************************)
\* The repository files that are the resource or lie in the folder it names.
BelongsTo(file_path, resource) ==
    file_path = resource \/ StartsWith(file_path, Append(resource, "/"))

Belonging == { hfRepo[i] : i \in { j \in 1..Len(hfRepo) : BelongsTo(hfRepo[j], hfResource) } }

NamesFileOrFolder == hfResource # <<>> /\ Belonging # {}

\* The files of the resource below local_dir/<last segment>, laid out as in
\* the repository.
ExpectedLocal ==
    { LocalFile(ReRoot(PathOf(f), PathOf(hfResource),
                       <<Split(hfResource)[Len(Split(hfResource))]>>), f) :
        f \in Belonging }

\* C16: a download of a resource that names a file or folder of the
\* repository fails only if the hub does; when it returns, local_dir holds
\* under the resource's last segment exactly the files of the resource in
\* their layout, nothing else was fetched, and no tmp directory is left.  With
\* no resource the whole repository is there.
C16_SelectiveDownloadExact ==
    /\ (NamesFileOrFolder /\ hfStatus = "raised") => hfError.message \in HfErrors
    /\ (NamesFileOrFolder /\ hfStatus = "done")
         => /\ hfLocal.files = ExpectedLocal
            /\ \A i \in 1..Len(hfFetched) : hfFetched[i] \in Belonging
            /\ ~ExistsIn(hfLocal, <<Tmp>>)
    /\ (hfResource = <<>> /\ hfStatus = "done")
         => hfLocal.files = { LocalFile(PathOf(hfRepo[i]), hfRepo[i]) : i \in 1..Len(hfRepo) }

(***************************************************************************)
(* Exceptions at the adapter boundary                                      *)
(***************************************************************************)
\* The adapter error kinds the two adapters import and raise.
ImportedKinds ==
    {"UnableToCreateDirectory", "UnableToDownload", "UnableToFindDriveToken",
     "UnableToReadCredentialFile", "UnableToUpload"}

\* An exception a caller may receive under the contract: none, or an adapter
\* error of one of the kinds.
WithinTaxonomy(e) == e = NoError \/ (e.adapter /\ e.kind \in ImportedKinds)

\* C13: whatever fails inside a supported operation (the constructor,
\* get_resource_by_name, the folder download, the folder upload), the
\* exception that reaches the caller is an adapter error of a taxonomy kind.
C13_NoRawExceptionCrossesBoundary ==
    /\ WithinTaxonomy(ctorError)
    /\ WithinTaxonomy(resOut.error)
    /\ WithinTaxonomy(dlError)
    /\ WithinTaxonomy(upError)
    /\ WithinTaxonomy(hfError)

(***************************************************************************)
(* Specifications                                                          *)
(***************************************************************************)
\* The state before anything runs.  The component under study starts in any
\* environment it can meet: any token file and client-secrets file for the
\* constructor, any folder tree for a transfer.  The other components stay
\* idle.  A "transfer" run is a run of one of the two commands, download or
\* upload (cli/download.py, cli/upload.py); the other command is "off".
Init(component) ==
    /\ tokenFile \in IF component = "credential" THEN TokenFiles ELSE {NoFile}
    /\ credsFile \in IF component = "credential" THEN CredsFileStates ELSE {"ok"}
    /\ now = 0
    /\ pc = "idle"
    /\ token_path = DefaultTokenPath
    /\ creds = Nil
    /\ service = Nil
    /\ ctorError = NoError
    /\ didRefresh = FALSE
    /\ didReauth = FALSE
    /\ didDump = FALSE
    /\ loaded = Nil
    /\ fileAtStart = NoFile
    /\ lastDumped = Nil
    /\ prevDumped = Nil
    /\ startedAt = 0
    /\ resCall = NoCall
    /\ resOut = ResOutcome(<<>>, FALSE, Nil, NoError)
    /\ opCall = NoOpCall
    /\ opError = NoError
    /\ dlStatus \in IF component = "transfer" THEN {"idle", "off"} ELSE {"idle"}
    /\ upStatus \in IF component = "transfer" /\ dlStatus = "idle" THEN {"off"} ELSE {"idle"}
    /\ remote \in IF component \in {"download", "transfer"} /\ dlStatus = "idle"
                  THEN Trees ELSE {<<>>}
    /\ localDirs = {}
    /\ localFiles = {}
    /\ dlStack = <<>>
    /\ dlFile = NoDownload
    /\ dlError = NoError
    /\ dlLog = <<>>
    /\ ltree \in IF component \in {"upload", "transfer"} /\ upStatus = "idle"
                 THEN Trees ELSE {<<>>}
    /\ upParent \in IF component \in {"upload", "transfer"} /\ upStatus = "idle"
                    THEN ParentIds ELSE {None}
    /\ upStack = <<>>
    /\ remoteItems = <<>>
    /\ upError = NoError
    /\ hfRepo \in IF component = "hgface" THEN Repos ELSE {<<>>}
    /\ hfResource \in IF component = "hgface" THEN Resources ELSE {<<>>}
    /\ hfIdx = 1
    /\ hfLocal = FileSystem({}, {})
    /\ hfFetched = <<>>
    /\ hfStatus = "idle"
    /\ hfError = NoError

SpecCredential == Init("credential") /\ [][CredNext]_vars

SpecResolver == Init("resolver") /\ [][ResNext]_vars

SpecContract == Init("contract") /\ [][OpNext]_vars

SpecDownload == Init("download") /\ [][DlNext]_vars

SpecUpload == Init("upload") /\ [][UpNext]_vars

TransferNext ==
    \/ DownloadFolderCall
    \/ DownloadFolderEnter
    \/ DownloadFolderItem
    \/ DownloadFileNextChunk
    \/ DownloadFileWrite
    \/ DownloadFolderReturn
    \/ UploadFolderCall
    \/ UploadFolderEnter
    \/ UploadFolderItem
    \/ UploadFolderReturn

SpecTransfer == Init("transfer") /\ [][TransferNext]_vars

SpecHgface == Init("hgface") /\ [][HfNext]_vars

====
